---- MODULE Spec2Model ----
(***************************************************************************)
(* systemd-status: a tray indicator that polls systemd for failed units.   *)
(*                                                                         *)
(* Two threads are modelled.  The main thread runs main(): it connects to  *)
(* the system bus, builds the Tray, spawns the tray service and then loops *)
(* query -> handle.update -> sleep.  The tray service thread calls the     *)
(* KsniTray callbacks icon_name(&self) and menu(&self).  The Tray lives in *)
(* the TrayService; the closure given to handle.update receives            *)
(* `&mut Tray` and the callbacks receive `&self`, so the two kinds of      *)
(* access exclude each other: `lock` is the holder of that exclusive       *)
(* access.                                                                 *)
(***************************************************************************)
EXTENDS Integers, Sequences, FiniteSets, TLC

\* ---------------------------------------------------------------- bounds
\* Longest reply of ListUnitsFiltered that is enumerated.
MaxUnits == 2
\* The history counters (queries, sleeps, sleeps_since_change) saturate here.
MaxCount == 2

\* ------------------------------------------------------------------ data
Names == {"foo.service", "bar.service"}

\* DbusUnitInfoRet: the positional 10-tuple of the wire reply.
DbusUnitInfoRet ==
    { <<n, "description", "loaded", "failed", "sub", "following",
        "/unit", 0, "job", "/job">> : n \in Names }

RECURSIVE SeqsUpTo(_, _)
SeqsUpTo(S, n) ==
    IF n = 0 THEN { <<>> }
    ELSE LET shorter == SeqsUpTo(S, n - 1)
         IN  shorter \cup { Append(s, x) : s \in { t \in shorter : Len(t) = n - 1 }, x \in S }

\* The replies (Ok(infos)) the manager can give: any order of any of the
\* units, each unit (a unique name) reported at most once.
Replies ==
    { s \in SeqsUpTo(DbusUnitInfoRet, MaxUnits) :
        \A i, j \in 1..Len(s) : s[i][1] = s[j][1] => i = j }

\* Variant: the name is taken from the wrong tuple position.
UnitInfoFromShifted(x) ==
    [ name            |-> x[2],
      description     |-> x[1],
      load_state      |-> x[3],
      active_state    |-> x[4],
      sub_state       |-> x[5],
      following_unit  |-> x[6],
      object_path     |-> x[7],
      job_queued      |-> x[8],
      job_type        |-> x[9],
      job_object_path |-> x[10] ]

\* impl From<DbusUnitInfoRet> for UnitInfo
UnitInfoFrom(x) ==
    [ name            |-> x[1],
      description     |-> x[2],
      load_state      |-> x[3],
      active_state    |-> x[4],
      sub_state       |-> x[5],
      following_unit  |-> x[6],
      object_path     |-> x[7],
      job_queued      |-> x[8],
      job_type        |-> x[9],
      job_object_path |-> x[10] ]

\* infos.into_iter().map(UnitInfo::from).collect::<Vec<_>>()
MapUnitInfo(infos) == [ i \in 1..Len(infos) |-> UnitInfoFrom(infos[i]) ]

\* Variant: the two arms of the match are swapped.
icon_name_swapped(self) ==
    IF self.stale THEN "stale"
    ELSE IF self.failed_units = <<>> THEN "err" ELSE "ok"

\* Tray::icon_name
icon_name(self) ==
    IF self.stale THEN "stale"
    ELSE IF self.failed_units = <<>> THEN "ok" ELSE "err"

\* Tray::menu: one StandardItem per failed unit, labelled with its name.
RECURSIVE menu_loop(_, _, _)
menu_loop(units, i, ret) ==
    IF i > Len(units) THEN ret
    ELSE menu_loop(units, i + 1, Append(ret, units[i].name))

menu(self) == menu_loop(self.failed_units, 1, <<>>)

Inc(n) == IF n < MaxCount THEN n + 1 ELSE MaxCount

\* ----------------------------------------------------------------- state
VARIABLES
    pc,             \* position of the main thread
    tray_created,   \* Tray::new has returned Ok(tray)
    stale,          \* Tray.stale
    failed_units,   \* Tray.failed_units
    lock,           \* who holds exclusive access to the Tray: "free", "main", "service"
    unit_infos,     \* the Vec<UnitInfo> captured by the success closure
    service_pc,     \* position of the tray service thread
    ret,            \* what the last KsniTray callback returned
    main_ret,       \* what main returned: "running" or the context of its Err
    manager_up,     \* environment: the manager currently answers queries
    applied,        \* history: the Tray fields after the last completed update
    last_poll,      \* history: outcome of the last completed query
    last_infos,     \* history: reply of the last successful query
    ok_polls,       \* history: successful queries so far (saturating)
    repeat,         \* history: the last two queries both succeeded with the same reply
    queries,        \* history: queries issued (saturating)
    sleeps,         \* history: sleeps completed (saturating)
    updates,        \* history: handle.update calls completed (saturating)
    sleeps_since_change  \* history: sleeps completed since manager_up changed

vars == << pc, tray_created, stale, failed_units, lock, unit_infos, service_pc,
           ret, manager_up, applied, last_poll, last_infos, ok_polls, repeat,
           queries, sleeps, sleeps_since_change, main_ret, updates >>

\* The Tray as the callbacks and closures see it.
Self == [ stale |-> stale, failed_units |-> failed_units ]

trayVars  == << tray_created, stale, failed_units >>
pollHist  == << last_poll, last_infos, ok_polls, repeat >>
countHist == << queries, sleeps, sleeps_since_change, updates >>

Init ==
    /\ pc = "connect"
    /\ tray_created = FALSE
    /\ stale = FALSE            \* no Tray exists yet; the fields are set by Tray::new
    /\ failed_units = <<>>
    /\ lock = "free"
    /\ unit_infos = <<>>
    /\ service_pc = "unspawned"
    /\ ret = [ op |-> "none", value |-> <<>> ]
    /\ manager_up \in BOOLEAN
    /\ applied = [ stale |-> FALSE, failed_units |-> <<>> ]
    /\ last_poll = "none"
    /\ last_infos = <<>>
    /\ ok_polls = 0
    /\ repeat = FALSE
    /\ queries = 0
    /\ sleeps = 0
    /\ sleeps_since_change = 0
    /\ main_ret = "running"
    /\ updates = 0

\* Variant: the Tray starts out fresh.
TrayNewFresh == [ stale |-> FALSE, failed_units |-> <<>> ]

\* Tray::new: the value of `tray`.
TrayNew == [ stale |-> TRUE, failed_units |-> <<>> ]

\* Variant: the new units are appended to the old ones.
OkClosureUnitsExtend(self, infos) ==
    [ self EXCEPT !.failed_units = self.failed_units \o infos ]

\* Ok arm closure, first statement: tray.failed_units = unit_infos.clone();
OkClosureUnits(self, infos) == [ self EXCEPT !.failed_units = infos ]

\* Variant: a successful poll does not clear the stale flag.
OkClosureStaleKept(self) == self

\* Ok arm closure, second statement: tray.stale = false;
OkClosureStale(self) == [ self EXCEPT !.stale = FALSE ]

\* Variant: a failed poll also forgets the units.
ErrClosureClear(self) == [ stale |-> TRUE, failed_units |-> <<>> ]

\* Variant: a failed poll is only logged.
ErrClosureNoop(self) == self

\* Err arm closure: tray.stale = true;
ErrClosure(self) == [ self EXCEPT !.stale = TRUE ]

\* ----------------------------------------------------- exclusive access
\* Variant: access is taken without waiting for the other thread.
AcquireUnguarded(who) == lock' = who

Acquire(who) == lock = "free" /\ lock' = who
\* Variant: access is not given back.
ReleaseLeak(who) == lock = who /\ lock' = lock

Release(who) == lock = who /\ lock' = "free"

\* ----------------------------------------------------------- main thread
\* Connection::new_system() succeeded; conn.with_proxy builds the proxy.
ConnectOk ==
    /\ pc = "connect"
    /\ pc' = "tray_new"
    /\ UNCHANGED << main_ret, trayVars, lock, unit_infos, service_pc, ret, manager_up,
                    applied, pollHist, countHist >>

\* Variant: the tray is built and spawned before the connection is checked.
ConnectErrAfterTray ==
    /\ pc = "connect"
    /\ tray_created' = TRUE
    /\ stale' = TRUE
    /\ failed_units' = <<>>
    /\ service_pc' = "idle"
    /\ pc' = "exit_err"
    /\ main_ret' = "Failed to connect to system bus"
    /\ UNCHANGED << lock, unit_infos, ret, manager_up,
                    applied, pollHist, countHist >>

\* Connection::new_system() failed: `?` returns the error from main.
ConnectErr ==
    /\ pc = "connect"
    /\ pc' = "exit_err"
    /\ main_ret' = "Failed to connect to system bus"
    /\ UNCHANGED << trayVars, lock, unit_infos, service_pc, ret, manager_up,
                    applied, pollHist, countHist >>

\* Tray::new() staged the icons and built the Tray.
TrayNewOk ==
    /\ pc = "tray_new"
    /\ tray_created' = TRUE
    /\ stale' = TrayNew.stale
    /\ failed_units' = TrayNew.failed_units
    /\ applied' = TrayNew
    /\ pc' = "spawn"
    /\ UNCHANGED << main_ret, lock, unit_infos, service_pc, ret, manager_up,
                    pollHist, countHist >>

\* Tray::new() failed (tempdir, open or write): `?` returns the error.
TrayNewErr ==
    /\ pc = "tray_new"
    /\ pc' = "exit_err"
    /\ main_ret' = "Failed to create tray"
    /\ UNCHANGED << trayVars, lock, unit_infos, service_pc, ret, manager_up,
                    applied, pollHist, countHist >>

\* Variant: the loop sleeps before its first query.
SpawnSleepFirst ==
    /\ pc = "spawn"
    /\ service_pc' = "idle"
    /\ pc' = "sleep"
    /\ UNCHANGED << main_ret, trayVars, lock, unit_infos, ret, manager_up,
                    applied, pollHist, countHist >>

\* TrayService::new(tray); tray.handle(); tray.spawn()
Spawn ==
    /\ pc = "spawn"
    /\ service_pc' = "idle"
    /\ pc' = "query"
    /\ UNCHANGED << main_ret, trayVars, lock, unit_infos, ret, manager_up,
                    applied, pollHist, countHist >>

\* Variant: the query is made inside handle.update, holding the Tray.
QueryHoldingTray ==
    /\ pc = "query"
    /\ lock = "free"
    /\ lock' = "main"
    /\ pc' = "reply"
    /\ queries' = Inc(queries)
    /\ UNCHANGED << main_ret, trayVars, unit_infos, service_pc, ret, manager_up,
                    applied, pollHist, sleeps, sleeps_since_change, updates >>

\* proxy.list_units_filtered(vec!["failed"]) is sent; the thread blocks.
Query ==
    /\ pc = "query"
    /\ pc' = "reply"
    /\ queries' = Inc(queries)
    /\ UNCHANGED << main_ret, trayVars, lock, unit_infos, service_pc, ret, manager_up,
                    applied, pollHist, sleeps, sleeps_since_change, updates >>

\* Ok(infos): the reply is converted to Vec<UnitInfo>.
QueryOk ==
    /\ pc = "reply"
    /\ manager_up
    /\ \E infos \in Replies :
          /\ unit_infos' = MapUnitInfo(infos)
          /\ last_infos' = infos
          /\ repeat' = (last_poll = "ok" /\ last_infos = infos)
    /\ last_poll' = "ok"
    /\ ok_polls' = Inc(ok_polls)
    /\ pc' = "update_ok"
    /\ UNCHANGED << main_ret, trayVars, lock, service_pc, ret, manager_up, applied,
                    countHist >>

\* Variant: a failed query is retried at once.
QueryErrRetry ==
    /\ pc = "reply"
    /\ ~manager_up
    /\ last_poll' = "err"
    /\ repeat' = FALSE
    /\ pc' = "query"
    /\ UNCHANGED << main_ret, trayVars, lock, unit_infos, service_pc, ret,
                    manager_up, applied, last_infos, ok_polls, countHist >>

\* Variant: the error is propagated with `?` and main returns.
QueryErrFatal ==
    /\ pc = "reply"
    /\ ~manager_up
    /\ last_poll' = "err"
    /\ repeat' = FALSE
    /\ pc' = "exit_err"
    /\ main_ret' = "Failed to list units"
    /\ UNCHANGED << trayVars, lock, unit_infos, service_pc, ret, manager_up,
                    applied, last_infos, ok_polls, countHist >>

\* Err(e): the error is logged.
QueryErr ==
    /\ pc = "reply"
    /\ ~manager_up
    /\ last_poll' = "err"
    /\ repeat' = FALSE
    /\ pc' = "update_err"
    /\ UNCHANGED << main_ret, trayVars, lock, unit_infos, service_pc, ret, manager_up,
                    applied, last_infos, ok_polls, countHist >>

\* handle.update(move |tray| ...) of the Ok arm obtains the Tray.
UpdateOkEnter ==
    /\ pc = "update_ok"
    /\ Acquire("main")
    /\ pc' = "ok_units"
    /\ UNCHANGED << main_ret, trayVars, unit_infos, service_pc, ret, manager_up,
                    applied, pollHist, countHist >>

\* tray.failed_units = unit_infos.clone();
UpdateOkUnits ==
    /\ pc = "ok_units"
    /\ stale' = OkClosureUnits(Self, unit_infos).stale
    /\ failed_units' = OkClosureUnits(Self, unit_infos).failed_units
    /\ pc' = "ok_stale"
    /\ UNCHANGED << main_ret, tray_created, lock, unit_infos, service_pc, ret,
                    manager_up, applied, pollHist, countHist >>

\* tray.stale = false; the closure returns and the Tray is given back.
UpdateOkStale ==
    /\ pc = "ok_stale"
    /\ stale' = OkClosureStale(Self).stale
    /\ failed_units' = OkClosureStale(Self).failed_units
    /\ Release("main")
    /\ applied' = OkClosureStale(Self)
    /\ unit_infos' = <<>>
    /\ updates' = Inc(updates)
    /\ pc' = "sleep"
    /\ UNCHANGED << main_ret, tray_created, service_pc, ret, manager_up,
                    pollHist, queries, sleeps, sleeps_since_change >>

\* handle.update(|tray| ...) of the Err arm obtains the Tray.
UpdateErrEnter ==
    /\ pc = "update_err"
    /\ Acquire("main")
    /\ pc' = "err_stale"
    /\ UNCHANGED << main_ret, trayVars, unit_infos, service_pc, ret, manager_up,
                    applied, pollHist, countHist >>

\* tray.stale = true; the closure returns and the Tray is given back.
UpdateErrStale ==
    /\ pc = "err_stale"
    /\ stale' = ErrClosure(Self).stale
    /\ failed_units' = ErrClosure(Self).failed_units
    /\ Release("main")
    /\ applied' = ErrClosure(Self)
    /\ updates' = Inc(updates)
    /\ pc' = "sleep"
    /\ UNCHANGED << main_ret, tray_created, unit_infos, service_pc, ret,
                    manager_up, pollHist, queries, sleeps, sleeps_since_change >>

\* std::thread::sleep(Duration::from_secs(60)); then the loop repeats.
Sleep ==
    /\ pc = "sleep"
    /\ sleeps' = Inc(sleeps)
    /\ sleeps_since_change' = Inc(sleeps_since_change)
    /\ pc' = "query"
    /\ UNCHANGED << main_ret, trayVars, lock, unit_infos, service_pc, ret, manager_up,
                    applied, pollHist, queries, updates >>

\* --------------------------------------------------- tray service thread
\* The service borrows the Tray to call a callback.
CallIconName ==
    /\ service_pc = "idle"
    /\ Acquire("service")
    /\ service_pc' = "icon_name"
    /\ UNCHANGED << main_ret, pc, trayVars, unit_infos, ret, manager_up, applied,
                    pollHist, countHist >>

ReturnIconName ==
    /\ service_pc = "icon_name"
    /\ ret' = [ op |-> "icon_name", value |-> icon_name(Self) ]
    /\ Release("service")
    /\ service_pc' = "idle"
    /\ UNCHANGED << main_ret, pc, trayVars, unit_infos, manager_up, applied,
                    pollHist, countHist >>

CallMenu ==
    /\ service_pc = "idle"
    /\ Acquire("service")
    /\ service_pc' = "menu"
    /\ UNCHANGED << main_ret, pc, trayVars, unit_infos, ret, manager_up, applied,
                    pollHist, countHist >>

\* Variant: building the menu drains the units.
ReturnMenuDrain ==
    /\ service_pc = "menu"
    /\ ret' = [ op |-> "menu", value |-> menu(Self) ]
    /\ failed_units' = <<>>
    /\ Release("service")
    /\ service_pc' = "idle"
    /\ UNCHANGED << main_ret, pc, tray_created, stale, unit_infos, manager_up,
                    applied, pollHist, countHist >>

ReturnMenu ==
    /\ service_pc = "menu"
    /\ ret' = [ op |-> "menu", value |-> menu(Self) ]
    /\ Release("service")
    /\ service_pc' = "idle"
    /\ UNCHANGED << main_ret, pc, trayVars, unit_infos, manager_up, applied,
                    pollHist, countHist >>

\* ----------------------------------------------------------- environment
\* The manager becomes unreachable, or reachable again.
ManagerChange ==
    /\ manager_up' = ~manager_up
    /\ sleeps_since_change' = 0
    /\ UNCHANGED << main_ret, pc, trayVars, lock, unit_infos, service_pc, ret, applied,
                    pollHist, queries, sleeps, updates >>

Main ==
    \/ ConnectOk \/ ConnectErr \/ TrayNewOk \/ TrayNewErr \/ Spawn
    \/ Query \/ QueryOk \/ QueryErr
    \/ UpdateOkEnter \/ UpdateOkUnits \/ UpdateOkStale
    \/ UpdateErrEnter \/ UpdateErrStale
    \/ Sleep

Service == CallIconName \/ ReturnIconName \/ CallMenu \/ ReturnMenu

Next == Main \/ Service \/ ManagerChange

Spec == Init /\ [][Next]_vars

TypeOK ==
    /\ pc \in { "connect", "tray_new", "spawn", "query", "reply", "update_ok",
                "ok_units", "ok_stale", "update_err", "err_stale", "sleep",
                "exit_err" }
    /\ stale \in BOOLEAN
    /\ lock \in { "free", "main", "service" }
    /\ service_pc \in { "unspawned", "idle", "icon_name", "menu" }
    /\ last_poll \in { "none", "ok", "err" }
    /\ queries \in 0..MaxCount /\ sleeps \in 0..MaxCount
    /\ updates \in 0..MaxCount
    /\ main_ret \in { "running", "Failed to connect to system bus",
                      "Failed to create tray" }

\* The main thread keeps running, a query is answered or times out, and a
\* thread waiting for the Tray eventually gets it; the service thread returns
\* from a callback it has entered.
FairSpec ==
    /\ Spec
    /\ WF_vars(Main)
    /\ SF_vars(UpdateOkEnter)
    /\ SF_vars(UpdateErrEnter)
    /\ WF_vars(ReturnIconName \/ ReturnMenu)

\* ---------------------------------------------------------------- claims
InLoop == pc \in { "query", "reply", "update_ok", "ok_units", "ok_stale",
                   "update_err", "err_stale", "sleep" }

\* The main thread is between two updates: none is pending or in progress.
BetweenUpdates == pc \in { "sleep", "query", "reply" }

Names_of(infos) == [ i \in 1..Len(infos) |-> infos[i][1] ]

\* C1: the Tray is created with stale = TRUE and no failed units, and as long
\* as no poll has succeeded (whatever number of polls failed) icon_name
\* returns "stale".
C1_StaleUntilFirstSuccess ==
    /\ pc = "spawn" => stale /\ failed_units = <<>>
    /\ (tray_created /\ ok_polls = 0) =>
          /\ icon_name(Self) = "stale"
          /\ ret.op = "icon_name" => ret.value = "stale"

C1_Witness ==
    /\ ok_polls = 0 /\ last_poll = "err" /\ pc = "sleep" /\ sleeps >= 1
    /\ ret.op = "icon_name"

\* C2: icon_name is "stale" when stale, "ok" when not stale and there are no
\* failed units, "err" when not stale and there are failed units, and nothing
\* else.
C2_Classification ==
    /\ tray_created =>
          /\ stale => icon_name(Self) = "stale"
          /\ (~stale /\ Len(failed_units) = 0) => icon_name(Self) = "ok"
          /\ (~stale /\ Len(failed_units) > 0) => icon_name(Self) = "err"
    /\ ret.op = "icon_name" => ret.value \in { "stale", "ok", "err" }

C2_Witness ==
    /\ ~stale /\ Len(failed_units) > 0
    /\ ret.op = "icon_name" /\ ret.value = "err"

\* C3: while the service thread is inside icon_name or menu, the Tray it
\* reads is the result of the last completed update (or of Tray::new): never
\* the new failed_units with the old stale, nor a half-applied update.
C3_AtomicUpdate ==
    service_pc \in { "icon_name", "menu" } =>
        /\ Self = applied
        /\ pc \notin { "ok_units", "ok_stale", "err_stale" }

C3_Witness ==
    /\ service_pc = "menu" /\ pc = "update_ok"
    /\ stale /\ unit_infos # <<>> /\ unit_infos # failed_units

\* C4: when the last poll failed and an earlier one succeeded with reply S,
\* then once the failure is applied stale = TRUE, failed_units is still S,
\* the icon is "stale" and the menu lists the names of S.
C4_FailedPollKeepsUnits ==
    (BetweenUpdates /\ last_poll = "err" /\ ok_polls > 0) =>
        /\ stale
        /\ failed_units = MapUnitInfo(last_infos)
        /\ icon_name(Self) = "stale"
        /\ menu(Self) = Names_of(last_infos)

C4_Witness ==
    /\ pc = "sleep" /\ last_poll = "err" /\ ok_polls > 0
    /\ last_infos # <<>> /\ sleeps >= 2

\* C5: failed_units changes only in the step that applies a successful poll,
\* and then becomes exactly the units that poll returned; it becomes empty
\* only through a successful poll that returned no unit.
C5_OnlySuccessReplaces ==
    [][ failed_units' # failed_units =>
          /\ pc = "ok_units"
          /\ last_poll = "ok"
          /\ failed_units' = MapUnitInfo(last_infos)
          /\ (failed_units' = <<>> => last_infos = <<>>) ]_vars

C5_Witness ==
    /\ pc = "ok_stale" /\ failed_units = <<>> /\ applied.failed_units # <<>>

\* C6: after a successful poll that returned N records, menu has exactly N
\* entries, the names (tuple position 0) of the records in reply order.
C6_MenuIsNames ==
    (BetweenUpdates /\ last_poll = "ok") =>
        /\ Len(menu(Self)) = Len(last_infos)
        /\ \A i \in 1..Len(last_infos) : menu(Self)[i] = last_infos[i][1]

C6_Witness ==
    /\ pc = "sleep" /\ last_poll = "ok" /\ Len(last_infos) = 2
    /\ last_infos[1][1] # last_infos[2][1]
    /\ ret.op = "menu" /\ ret.value = Names_of(last_infos)

\* C7: when two consecutive polls succeed with the same reply, applying the
\* second leaves the Tray, the icon and the menu as they were after the first.
C7_Idempotent ==
    [][ (repeat /\ pc = "ok_stale" /\ pc' = "sleep") =>
          /\ stale' = applied.stale
          /\ failed_units' = applied.failed_units
          /\ icon_name(Self') = icon_name(applied)
          /\ menu(Self') = menu(applied) ]_vars

C7_Witness ==
    /\ repeat /\ pc = "sleep" /\ failed_units # <<>> /\ ~stale

\* C8: no sleep precedes the first query, so when the first poll has been
\* applied the icon is "ok" (empty reply) or "err" (non-empty reply) and no
\* sleep has happened yet.
C8_FirstQueryBeforeSleep ==
    /\ queries = 0 => sleeps = 0
    /\ (pc = "sleep" /\ queries = 1 /\ last_poll = "ok") =>
          /\ sleeps = 0
          /\ icon_name(Self) = IF last_infos = <<>> THEN "ok" ELSE "err"

C8_Witness ==
    /\ pc = "sleep" /\ queries = 1 /\ last_poll = "ok" /\ last_infos = <<>>
    /\ sleeps = 0 /\ icon_name(Self) = "ok"

\* C9: once in the poll loop the main thread stays in it whatever the polls
\* return, and under fairness it always eventually issues another query.
C9_LoopNeverEnds ==
    /\ [][ InLoop => InLoop' ]_vars
    /\ [](InLoop => []<>(pc = "query"))
    /\ [](InLoop => []<>(pc = "reply"))

C9_Witness ==
    /\ pc = "reply" /\ last_poll = "err" /\ ok_polls = 0 /\ sleeps >= 2

\* C10: at the end of every tick the icon is "stale" exactly when that tick's
\* query failed, and whenever the icon disagrees with the manager's
\* reachability at most one sleep has completed since reachability changed.
C10_IconFollowsManager ==
    /\ (pc = "sleep") => ((icon_name(Self) = "stale") <=> (last_poll = "err"))
    /\ (InLoop /\ ((icon_name(Self) = "stale") <=> manager_up)) =>
          sleeps_since_change <= 1

C10_Witness ==
    /\ pc = "reply" /\ ~manager_up /\ sleeps_since_change = 1
    /\ icon_name(Self) = "err"

\* C11: when the bus connection or Tray::new fails, main returns the error
\* without entering the poll loop: no query is issued, no update is applied
\* and the Tray fields are never written afterwards; when it is the
\* connection that failed, no Tray was created and no service was spawned.
C11_SetupFailureAborts ==
    /\ [](main_ret # "running" =>
            /\ pc = "exit_err"
            /\ queries = 0 /\ updates = 0 /\ last_poll = "none"
            /\ service_pc = "unspawned" /\ lock = "free")
    /\ [](main_ret = "Failed to connect to system bus" => ~tray_created)
    /\ [][ pc = "exit_err" =>
             /\ pc' = "exit_err"
             /\ << tray_created, stale, failed_units, main_ret >>'
                  = << tray_created, stale, failed_units, main_ret >> ]_vars

C11_Witness ==
    /\ pc = "exit_err" /\ main_ret = "Failed to create tray"
    /\ ~tray_created /\ queries = 0

\* C12: while a query is in flight the main thread does not hold the Tray:
\* an idle service thread can enter icon_name and menu, and what a callback
\* reads is the Tray as the last completed update left it.
C12_QueryDoesNotBlockService ==
    pc = "reply" =>
        /\ lock # "main"
        /\ service_pc = "idle" => (ENABLED CallIconName /\ ENABLED CallMenu)
        /\ service_pc \in { "icon_name", "menu" } =>
              (ENABLED (ReturnIconName \/ ReturnMenu) /\ Self = applied)

C12_Witness ==
    /\ pc = "reply" /\ service_pc = "icon_name" /\ lock = "service"
    /\ updates >= 1 /\ ~stale

\* C13: while the loop sleeps between two ticks, stale is TRUE exactly when
\* the last completed poll failed, and when stale is FALSE failed_units is
\* the reply of that poll.
C13_StaleMeansLastPollFailed ==
    pc = "sleep" =>
        /\ stale <=> (last_poll = "err")
        /\ ~stale => (last_poll = "ok" /\ failed_units = MapUnitInfo(last_infos))

C13_Witness ==
    /\ pc = "sleep" /\ ~stale /\ last_poll = "ok" /\ failed_units # <<>>
    /\ sleeps >= 1

\* The main thread is inside a tick: the query is out or its update is due.
InTick == pc \in { "reply", "update_ok", "ok_units", "ok_stale",
                   "update_err", "err_stale" }

\* C14: a tick is one query, then one update, then one sleep: the counts of
\* queries, updates and sleeps advance in that order, a failed query leads
\* to its update and not to another query, and a query is only issued at
\* loop entry or after a sleep.
C14_OneQueryOneUpdateOneSleep ==
    /\ [](pc = "query" => (queries = sleeps /\ updates = sleeps))
    /\ [](InTick => (queries = Inc(sleeps) /\ updates = sleeps))
    /\ [](pc = "sleep" => (queries = Inc(sleeps) /\ updates = queries))
    /\ [][ /\ (pc = "reply" /\ pc' # "reply") => pc' \in { "update_ok", "update_err" }
           /\ (pc' = "reply" /\ pc # "reply") => pc = "query"
           /\ (pc' = "query" /\ pc # "query") => pc \in { "spawn", "sleep" }
           /\ (pc' = "sleep" /\ pc # "sleep") => pc \in { "ok_stale", "err_stale" } ]_vars

C14_Witness ==
    /\ pc = "sleep" /\ last_poll = "err" /\ queries = 1 /\ updates = 1
    /\ sleeps = 0

\* C15: once the Tray exists, icon_name and menu leave stale and failed_units
\* as they are, and every step that changes either field is a statement of
\* an update closure of the poll loop.
C15_PollLoopIsOnlyWriter ==
    [][ /\ (service_pc \in { "icon_name", "menu" } /\ service_pc' = "idle") =>
              (stale' = stale /\ failed_units' = failed_units)
        /\ (tray_created /\ << stale, failed_units >>' # << stale, failed_units >>) =>
              /\ pc \in { "ok_units", "ok_stale", "err_stale" }
              /\ pc' # pc
              /\ lock = "main"
              /\ service_pc' = service_pc ]_vars

C15_Witness ==
    /\ service_pc = "idle" /\ ret.op = "menu" /\ ret.value # <<>>
    /\ menu(Self) = ret.value /\ pc = "sleep"

\* A thread is blocked when it has started and none of its steps can be taken.
MainBlocked == InLoop /\ ~ENABLED Main
ServiceBlocked == service_pc # "unspawned" /\ ~ENABLED Service

\* C16: the two threads are never both blocked, exclusive access is held
\* only inside an update closure or a callback, and under fairness an update
\* the poll loop has requested is eventually applied.
C16_NoDeadlock ==
    /\ [](~(MainBlocked /\ ServiceBlocked))
    /\ [](lock = "main" <=> pc \in { "ok_units", "ok_stale", "err_stale" })
    /\ [](lock = "service" <=> service_pc \in { "icon_name", "menu" })
    /\ (pc = "update_ok") ~> (pc = "sleep" /\ last_poll = "ok" /\ ~stale)
    /\ (pc = "update_err") ~> (pc = "sleep" /\ last_poll = "err" /\ stale)

C16_Witness ==
    /\ pc = "update_ok" /\ lock = "service" /\ MainBlocked /\ ~ServiceBlocked
====
